---- MODULE Spec2Model ----
(***************************************************************************)
(* The BadgerDB buffer manager (lab2/BufMgr/BufMgr/src/buffer.cpp): a      *)
(* fixed pool of frames, a descriptor per frame, a hash table from         *)
(* (file, pageNo) to the frame, and the clock replacement policy.          *)
(* One action per public method; the File, Page, BufDesc and BufHashTbl    *)
(* collaborators are modelled by what buffer.cpp relies on.                *)
(***************************************************************************)
EXTENDS Integers, Sequences, FiniteSets, TLC

\* ----------------------------------------------------------------- bounds
NumBufs == 2          \* the constructor's argument bufs
MaxPages == 2         \* page numbers a file can hand out: 1..MaxPages
MaxPin == 2           \* cap on pinCnt (readPage hits are refused above it)
MaxData == 1          \* page contents: 0 (as allocated) .. MaxData

Files == {"f1", "f2"}
\* The page numbers a file hands out: f1 grows to MaxPages pages, f2 holds one.
FilePages == [f \in Files |-> IF f = "f1" THEN 1..MaxPages ELSE {1}]
\* The page whose contents the caller changes and whose round trip is followed.
TrackedKey == <<"f1", 1>>
NULL == "NULL"
INVALID_NUMBER == 0
PageIds == 1..MaxPages
FrameIds == 0..(NumBufs - 1)
Data == 0..MaxData
NoPage == -1          \* disk[f][p] = NoPage: page p of file f does not exist

VARIABLES
  bufDescTable,   \* FrameId -> BufDesc
  bufPool,        \* FrameId -> Page, a record [pageNo, data]
  hashTable,      \* set of <<file, pageNo, frameNo>>
  clockHand,      \* FrameId
  disk,           \* file -> pageNo -> data or NoPage: the files' pages
  alive,          \* FALSE once the destructor has run
  lastOp,         \* the last call: [op |-> the method, res |-> "ok" or the exception]
  released        \* the contents of TrackedKey last released dirty and not
                  \* rewritten or disposed of since, or NoPage

vars == <<bufDescTable, bufPool, hashTable, clockHand, disk, alive, lastOp, released>>

\* ------------------------------------------------------------ BufDesc
\* BufDesc::Clear(): the empty descriptor.
Clear ==
  [valid |-> FALSE, dirty |-> FALSE, refbit |-> FALSE, pinCnt |-> 0,
   file |-> NULL, pageNo |-> INVALID_NUMBER]

\* BufDesc::Set(file, pageNo): a freshly loaded page, pinned once.
Set(file, pageNo) ==
  [valid |-> TRUE, dirty |-> FALSE, refbit |-> TRUE, pinCnt |-> 1,
   file |-> file, pageNo |-> pageNo]

\* ------------------------------------------------------------ BufHashTbl
hashHas(hash, file, pageNo) == \E e \in hash : e[1] = file /\ e[2] = pageNo

\* BufHashTbl::lookup: the frame of (file, pageNo); HashNotFoundException
\* is the case ~hashHas.
hashLookup(hash, file, pageNo) ==
  (CHOOSE e \in hash : e[1] = file /\ e[2] = pageNo)[3]

\* BufHashTbl::insert (HashAlreadyPresentException is the case hashHas).
hashInsert(hash, file, pageNo, frameNo) == hash \cup {<<file, pageNo, frameNo>>}

\* BufHashTbl::remove (HashNotFoundException is the case ~hashHas).
hashRemove(hash, file, pageNo) ==
  {e \in hash : ~(e[1] = file /\ e[2] = pageNo)}

\* ------------------------------------------------------------ File, Page
\* A default-constructed Page.
EmptyPage == [pageNo |-> INVALID_NUMBER, data |-> 0]

FileHasPage(d, file, pageNo) ==
  file \in Files /\ pageNo \in PageIds /\ d[file][pageNo] # NoPage

\* File::readPage(pageNo) (InvalidPageException is the case ~FileHasPage).
FileReadPage(d, file, pageNo) == [pageNo |-> pageNo, data |-> d[file][pageNo]]

\* File::writePage(page): the page carries its own number
\* (InvalidPageException is the case ~FileHasPage).
FileWritePage(d, file, page) == [d EXCEPT ![file][page.pageNo] = page.data]

\* File::deletePage(pageNo): the page is gone afterwards; the File contract
\* names no failure for it.
FileDeletePage(d, file, pageNo) == [d EXCEPT ![file][pageNo] = NoPage]

\* File::allocatePage(): a page number not in use, initial contents.
FileFreePages(d, file) == {p \in FilePages[file] : d[file][p] = NoPage}
FileAllocatePage(d, file, pageNo) == [d EXCEPT ![file][pageNo] = 0]

\* ------------------------------------------------------------ the state
\* The manager's fields and the files, as one record the methods transform.
\* res is the outcome ("ok" or the exception thrown), frame the frame allocBuf
\* returned, wrote the writePage calls made, steps the clock steps taken.
State ==
  [desc |-> bufDescTable, pool |-> bufPool, hash |-> hashTable,
   hand |-> clockHand, disk |-> disk, res |-> "ok", frame |-> NumBufs,
   wrote |-> {}, steps |-> 0]

\* ------------------------------------------------------------ the clock
\* A hand that stays on the last frame instead of wrapping.
advanceClockNoWrap(hand) == IF hand = NumBufs - 1 THEN hand ELSE hand + 1

\* BufMgr::advanceClock().
advanceClock(hand) == IF hand = NumBufs - 1 THEN 0 ELSE hand + 1

\* allocBuf: int trylimit = numBufs * 2.
trylimit == NumBufs * 2

\* A sweep that gives up after one pass over the pool.
sweepOnePass(count) == count < NumBufs

\* allocBuf: the loop test of while (count++ <= trylimit), on the value of
\* count before the increment.
sweepContinues(count) == count <= trylimit

\* A sweep that gives no second chance.
sweepNoSecondChance(entry) == FALSE

\* allocBuf: if (entry.refbit) { entry.refbit = false; continue; }, the test.
sweepGivesSecondChance(entry) == entry.refbit

\* A sweep without the pin test.
sweepSkipsNothing(entry) == FALSE

\* allocBuf: if (entry.pinCnt != 0) continue.
sweepSkipsPinned(entry) == entry.pinCnt # 0

\* An eviction that forgets the write-back.
writeBackSkipped(s, id) == s

\* allocBuf: if (entry.dirty) entry.file->writePage(bufPool[clockHand]).
writeBack(s, id) ==
  LET entry == s.desc[id] IN
  IF ~entry.dirty THEN s
  ELSE IF ~FileHasPage(s.disk, entry.file, s.pool[id].pageNo)
       THEN [s EXCEPT !.res = "InvalidPageException"]
       ELSE [s EXCEPT !.disk = FileWritePage(s.disk, entry.file, s.pool[id]),
                      !.wrote = @ \cup {<<entry.file, s.pool[id].pageNo, s.pool[id].data>>}]

\* A release that marks the frame invalid and leaves its other fields.
removeAndInvalidate(s, id, file, pageNo) ==
  IF ~hashHas(s.hash, file, pageNo)
  THEN [s EXCEPT !.res = "HashNotFoundException"]
  ELSE [s EXCEPT !.hash = hashRemove(s.hash, file, pageNo), !.desc[id].valid = FALSE]

\* A release that clears the frame and leaves its mapping in the hash table.
clearWithoutRemove(s, id, file, pageNo) == [s EXCEPT !.desc[id] = Clear]

\* hashTable->remove(file, pageNo); entry.Clear().
removeAndClear(s, id, file, pageNo) ==
  IF ~hashHas(s.hash, file, pageNo)
  THEN [s EXCEPT !.res = "HashNotFoundException"]
  ELSE [s EXCEPT !.hash = hashRemove(s.hash, file, pageNo), !.desc[id] = Clear]

\* allocBuf: the frame under the hand is valid, not referenced, not pinned:
\* write it back if dirty, drop its mapping, clear it and return it.
evictFrame(s, id) ==
  LET w == writeBack(s, id) IN
  IF w.res # "ok" THEN w
  ELSE LET r == removeAndClear(w, id, w.desc[id].file, w.desc[id].pageNo) IN
       IF r.res # "ok" THEN r ELSE [r EXCEPT !.frame = id]

\* allocBuf: the loop, from the value of count before the test.
RECURSIVE allocBufLoop(_, _)
allocBufLoop(s, count) ==
  IF ~sweepContinues(count)
  THEN [s EXCEPT !.res = "BufferExceededException"]
  ELSE LET hand == advanceClock(s.hand)
           entry == s.desc[hand]
           s1 == [s EXCEPT !.hand = hand, !.steps = @ + 1]
       IN IF ~entry.valid
          THEN [s1 EXCEPT !.desc[hand] = Clear, !.frame = hand]
          ELSE IF sweepGivesSecondChance(entry)
          THEN allocBufLoop([s1 EXCEPT !.desc[hand].refbit = FALSE], count + 1)
          ELSE IF sweepSkipsPinned(entry)
          THEN allocBufLoop(s1, count + 1)
          ELSE evictFrame(s1, hand)

\* A sweep that starts at frame 0 on every call.
allocBufFromZero(s) == allocBufLoop([s EXCEPT !.hand = NumBufs - 1], 0)

\* BufMgr::allocBuf(frame).
allocBuf(s) == allocBufLoop(s, 0)

\* ------------------------------------------------------------ the methods
\* Each method maps the state before the call to the state after it; res is
\* "ok" or the exception that left the method.

\* readPage, the page is in the pool.
readPageHit(s, file, pageNo) ==
  LET id == hashLookup(s.hash, file, pageNo) IN
  [s EXCEPT !.desc[id].refbit = TRUE, !.desc[id].pinCnt = @ + 1, !.frame = id]

\* A miss handler that registers the mapping before it has a frame.
readPageMissInsertsFirst(s, file, pageNo) ==
  LET a == allocBuf([s EXCEPT !.hash = hashInsert(s.hash, file, pageNo, s.hand)]) IN
  IF a.res # "ok" THEN a
  ELSE IF ~FileHasPage(a.disk, file, pageNo)
  THEN [a EXCEPT !.res = "InvalidPageException"]
  ELSE LET id == a.frame IN
       [a EXCEPT !.pool[id] = FileReadPage(a.disk, file, pageNo),
                 !.hash = hashInsert(hashRemove(a.hash, file, pageNo), file, pageNo, id),
                 !.desc[id] = Set(file, pageNo)]

\* readPage, the handler of HashNotFoundException.
readPageMiss(s, file, pageNo) ==
  LET a == allocBuf(s) IN
  IF a.res # "ok" THEN a
  ELSE IF ~FileHasPage(a.disk, file, pageNo)
  THEN [a EXCEPT !.res = "InvalidPageException"]
  ELSE LET id == a.frame
           b == [a EXCEPT !.pool[id] = FileReadPage(a.disk, file, pageNo)]
       IN IF hashHas(b.hash, file, pageNo)
          THEN [b EXCEPT !.res = "HashAlreadyPresentException"]
          ELSE [b EXCEPT !.hash = hashInsert(b.hash, file, pageNo, id),
                         !.desc[id] = Set(file, pageNo)]

\* BufMgr::readPage(file, pageNo, page).
readPage(s, file, pageNo) ==
  IF hashHas(s.hash, file, pageNo)
  THEN readPageHit(s, file, pageNo)
  ELSE readPageMiss(s, file, pageNo)

\* An unPinPage that drops every pin at once.
unPinPageReset(s, file, pageNo, dirty) ==
  IF ~hashHas(s.hash, file, pageNo) THEN s
  ELSE LET id == hashLookup(s.hash, file, pageNo) IN
       IF s.desc[id].pinCnt = 0
       THEN [s EXCEPT !.res = "PageNotPinnedException", !.frame = id]
       ELSE [s EXCEPT !.desc[id].pinCnt = 0,
                      !.desc[id].dirty = IF dirty THEN TRUE ELSE @,
                      !.frame = id]

\* An unPinPage that marks the frame dirty before it tests the pin count.
unPinPageMarksFirst(s, file, pageNo, dirty) ==
  IF ~hashHas(s.hash, file, pageNo) THEN s
  ELSE LET id == hashLookup(s.hash, file, pageNo)
           m == [s EXCEPT !.desc[id].dirty = IF dirty THEN TRUE ELSE @, !.frame = id]
       IN IF s.desc[id].pinCnt = 0
          THEN [m EXCEPT !.res = "PageNotPinnedException"]
          ELSE [m EXCEPT !.desc[id].pinCnt = @ - 1]

\* An unPinPage that lets HashNotFoundException out.
unPinPageThrowsOnMiss(s, file, pageNo, dirty) ==
  IF ~hashHas(s.hash, file, pageNo) THEN [s EXCEPT !.res = "HashNotFoundException"]
  ELSE LET id == hashLookup(s.hash, file, pageNo) IN
       IF s.desc[id].pinCnt = 0
       THEN [s EXCEPT !.res = "PageNotPinnedException", !.frame = id]
       ELSE [s EXCEPT !.desc[id].pinCnt = @ - 1,
                      !.desc[id].dirty = IF dirty THEN TRUE ELSE @,
                      !.frame = id]

\* An unPinPage that assigns its dirty argument to the dirty flag.
unPinPageAssignsDirty(s, file, pageNo, dirty) ==
  IF ~hashHas(s.hash, file, pageNo) THEN s
  ELSE LET id == hashLookup(s.hash, file, pageNo) IN
       IF s.desc[id].pinCnt = 0
       THEN [s EXCEPT !.res = "PageNotPinnedException", !.frame = id]
       ELSE [s EXCEPT !.desc[id].pinCnt = @ - 1, !.desc[id].dirty = dirty,
                      !.frame = id]

\* An unPinPage that ignores its dirty argument.
unPinPageIgnoresDirty(s, file, pageNo, dirty) ==
  IF ~hashHas(s.hash, file, pageNo) THEN s
  ELSE LET id == hashLookup(s.hash, file, pageNo) IN
       IF s.desc[id].pinCnt = 0
       THEN [s EXCEPT !.res = "PageNotPinnedException", !.frame = id]
       ELSE [s EXCEPT !.desc[id].pinCnt = @ - 1, !.frame = id]

\* BufMgr::unPinPage(file, pageNo, dirty).
unPinPage(s, file, pageNo, dirty) ==
  IF ~hashHas(s.hash, file, pageNo) THEN s
  ELSE LET id == hashLookup(s.hash, file, pageNo) IN
       IF s.desc[id].pinCnt = 0
       THEN [s EXCEPT !.res = "PageNotPinnedException", !.frame = id]
       ELSE [s EXCEPT !.desc[id].pinCnt = @ - 1,
                      !.desc[id].dirty = IF dirty THEN TRUE ELSE @,
                      !.frame = id]

\* A flushFile that does not compare the frame's file with its argument.
flushFrameAnyFile(s, file, id) ==
  LET entry == s.desc[id] IN
  IF ~entry.valid THEN s
  ELSE IF entry.pinCnt # 0 THEN [s EXCEPT !.res = "PagePinnedException", !.frame = id]
  ELSE LET w == writeBack(s, id) IN
       IF w.res # "ok" THEN w
       ELSE removeAndClear(w, id, entry.file, entry.pageNo)

\* flushFile: the body of the loop for frame id.
flushFrame(s, file, id) ==
  LET entry == s.desc[id] IN
  IF entry.file # file THEN s
  ELSE IF ~entry.valid THEN [s EXCEPT !.res = "BadBufferException", !.frame = id]
  ELSE IF entry.pinCnt # 0 THEN [s EXCEPT !.res = "PagePinnedException", !.frame = id]
  ELSE LET w == writeBack(s, id) IN
       IF w.res # "ok" THEN w
       ELSE removeAndClear(w, id, file, entry.pageNo)

\* flushFile: for (FrameId id = 0; id < numBufs; ++id), from frame id on.
RECURSIVE flushFileLoop(_, _, _)
flushFileLoop(s, file, id) ==
  IF ~(id < NumBufs) THEN s
  ELSE LET t == flushFrame(s, file, id) IN
       IF t.res # "ok" THEN t ELSE flushFileLoop(t, file, id + 1)

\* BufMgr::flushFile(file).
flushFile(s, file) == flushFileLoop(s, file, 0)

\* BufMgr::allocPage(file, pageNo, page); newPageNo is the number
\* file->allocatePage() hands out.
allocPage(s, file, newPageNo) ==
  LET n == [s EXCEPT !.disk = FileAllocatePage(s.disk, file, newPageNo)]
      a == allocBuf(n)
  IN IF a.res # "ok" THEN a
     ELSE IF hashHas(a.hash, file, newPageNo)
     THEN [a EXCEPT !.res = "HashAlreadyPresentException"]
     ELSE LET fid == a.frame IN
          [a EXCEPT !.hash = hashInsert(a.hash, file, newPageNo, fid),
                    !.desc[fid] = Set(file, newPageNo),
                    !.pool[fid] = [pageNo |-> newPageNo, data |-> 0]]

\* A disposePage that drops the mapping and forgets to clear the descriptor.
disposePageKeepsDesc(s, file, pageNo) ==
  LET d == [s EXCEPT !.disk = FileDeletePage(s.disk, file, pageNo)] IN
  IF ~hashHas(d.hash, file, pageNo) THEN d
  ELSE [d EXCEPT !.hash = hashRemove(d.hash, file, pageNo),
                 !.frame = hashLookup(d.hash, file, pageNo)]

\* BufMgr::disposePage(file, PageNo).
disposePage(s, file, pageNo) ==
  LET d == [s EXCEPT !.disk = FileDeletePage(s.disk, file, pageNo)] IN
  IF ~hashHas(d.hash, file, pageNo) THEN d
  ELSE LET fid == hashLookup(d.hash, file, pageNo) IN
       [d EXCEPT !.hash = hashRemove(d.hash, file, pageNo),
                 !.desc[fid] = Clear, !.frame = fid]

\* ~BufMgr: the body of the loop for frame id.
shutdownFrame(s, id) ==
  LET entry == s.desc[id] IN
  IF ~entry.valid THEN s
  ELSE IF entry.pinCnt # 0 THEN [s EXCEPT !.res = "PagePinnedException", !.frame = id]
  ELSE writeBack(s, id)

\* ~BufMgr: for (FrameId id = 0; id < numBufs; ++id), from frame id on.
RECURSIVE shutdownLoop(_, _)
shutdownLoop(s, id) ==
  IF ~(id < NumBufs) THEN s
  ELSE LET t == shutdownFrame(s, id) IN
       IF t.res # "ok" THEN t ELSE shutdownLoop(t, id + 1)

\* BufMgr::~BufMgr().
shutdown(s) == shutdownLoop(s, 0)

\* ------------------------------------------------------------ the actions
\* The fields after a call, and the record of the call.
Commit(r, op) ==
  /\ bufDescTable' = r.desc
  /\ bufPool' = r.pool
  /\ hashTable' = r.hash
  /\ clockHand' = r.hand
  /\ disk' = r.disk
  /\ lastOp' = [op |-> op, res |-> r.res]

\* BufMgr::BufMgr(bufs), over files that hold no page yet.
Init ==
  /\ bufDescTable = [i \in FrameIds |-> Clear]
  /\ bufPool = [i \in FrameIds |-> EmptyPage]
  /\ hashTable = {}
  /\ clockHand = NumBufs - 1
  /\ disk = [f \in Files |-> [p \in PageIds |-> NoPage]]
  /\ alive = TRUE
  /\ lastOp = [op |-> "BufMgr", res |-> "ok"]
  /\ released = NoPage

\* A call of readPage(file, pageNo, page).
ReadPage(file, pageNo) ==
  /\ alive
  /\ hashHas(hashTable, file, pageNo)
       => bufDescTable[hashLookup(hashTable, file, pageNo)].pinCnt < MaxPin
  /\ Commit(readPage(State, file, pageNo), "readPage")
  /\ UNCHANGED <<alive, released>>

\* A call of unPinPage(file, pageNo, dirty).
UnPinPage(file, pageNo, dirty) ==
  /\ alive
  /\ LET r == unPinPage(State, file, pageNo, dirty) IN
     /\ Commit(r, "unPinPage")
     /\ released' =
          IF <<file, pageNo>> = TrackedKey /\ dirty /\ r.res = "ok" /\ r.frame # NumBufs
          THEN bufPool[r.frame].data
          ELSE released
  /\ UNCHANGED alive

\* A call of flushFile(file).
FlushFile(file) ==
  /\ alive
  /\ Commit(flushFile(State, file), "flushFile")
  /\ UNCHANGED <<alive, released>>

\* A call of allocPage(file, pageNo, page); the file picks the page number.
AllocPage(file) ==
  /\ alive
  /\ \E newPageNo \in FileFreePages(disk, file) :
       /\ Commit(allocPage(State, file, newPageNo), "allocPage")
       /\ released' = IF <<file, newPageNo>> = TrackedKey THEN NoPage ELSE released
  /\ UNCHANGED alive

\* A call of disposePage(file, PageNo).
DisposePage(file, pageNo) ==
  /\ alive
  /\ LET r == disposePage(State, file, pageNo) IN
     /\ Commit(r, "disposePage")
     /\ released' = IF <<file, pageNo>> = TrackedKey /\ r.res = "ok"
                    THEN NoPage
                    ELSE released
  /\ UNCHANGED alive

\* The caller writes data into a page it holds pinned, through the Page*
\* that readPage or allocPage gave it.
WritePage(file, pageNo, data) ==
  /\ alive
  /\ hashHas(hashTable, file, pageNo)
  /\ LET id == hashLookup(hashTable, file, pageNo) IN
     /\ bufDescTable[id].pinCnt > 0
     /\ bufPool[id].data # data
     /\ bufPool' = [bufPool EXCEPT ![id].data = data]
     /\ lastOp' = [op |-> "write", res |-> "ok"]
  /\ released' = IF <<file, pageNo>> = TrackedKey THEN NoPage ELSE released
  /\ UNCHANGED <<bufDescTable, hashTable, clockHand, disk, alive>>

\* The destructor runs; nothing can be called after it.
Shutdown ==
  /\ alive
  /\ Commit(shutdown(State), "~BufMgr")
  /\ alive' = FALSE
  /\ UNCHANGED released

Next ==
  \/ \E file \in Files, pageNo \in PageIds : ReadPage(file, pageNo)
  \/ \E file \in Files, pageNo \in PageIds, dirty \in BOOLEAN : UnPinPage(file, pageNo, dirty)
  \/ \E file \in Files : FlushFile(file)
  \/ \E file \in Files : AllocPage(file)
  \/ \E file \in Files, pageNo \in PageIds : DisposePage(file, pageNo)
  \/ \E data \in Data : WritePage(TrackedKey[1], TrackedKey[2], data)
  \/ Shutdown

Spec == Init /\ [][Next]_vars

\* ------------------------------------------------------------ the calls
\* Every call that can be made in the current state, with the state it
\* leads to: the arguments as Next draws them, r the method's result.
Calls ==
  {[op |-> "readPage", file |-> a[1], pageNo |-> a[2], dirty |-> FALSE,
    r |-> readPage(State, a[1], a[2])] : a \in Files \X PageIds}
  \cup
  {[op |-> "unPinPage", file |-> a[1], pageNo |-> a[2], dirty |-> a[3],
    r |-> unPinPage(State, a[1], a[2], a[3])] : a \in Files \X PageIds \X BOOLEAN}
  \cup
  {[op |-> "flushFile", file |-> f, pageNo |-> INVALID_NUMBER, dirty |-> FALSE,
    r |-> flushFile(State, f)] : f \in Files}
  \cup
  {[op |-> "allocPage", file |-> a[1], pageNo |-> a[2], dirty |-> FALSE,
    r |-> allocPage(State, a[1], a[2])] :
      a \in {b \in Files \X PageIds : b[2] \in FileFreePages(disk, b[1])}}
  \cup
  {[op |-> "disposePage", file |-> a[1], pageNo |-> a[2], dirty |-> FALSE,
    r |-> disposePage(State, a[1], a[2])] : a \in Files \X PageIds}
  \cup
  {[op |-> "~BufMgr", file |-> NULL, pageNo |-> INVALID_NUMBER, dirty |-> FALSE,
    r |-> shutdown(State)]}

\* The call runs the clock sweep: allocPage, or readPage of a page not cached.
RunsSweep(c) ==
  \/ c.op = "allocPage"
  \/ c.op = "readPage" /\ ~hashHas(hashTable, c.file, c.pageNo)

Pinned(i) == bufDescTable[i].valid /\ bufDescTable[i].pinCnt > 0
AllPinned == \A i \in FrameIds : Pinned(i)
KeyOf(entry) == <<entry.file, entry.pageNo>>

\* ------------------------------------------------------------ C1
\* C1: no two valid frames hold the same (file, pageNo), after any sequence of
\* calls, successful or failing.
C1_NoDuplicateKey ==
  \A i, j \in FrameIds :
    (i # j /\ bufDescTable[i].valid /\ bufDescTable[j].valid)
      => KeyOf(bufDescTable[i]) # KeyOf(bufDescTable[j])

\* A full pool holding two pages of one file, reached by a call that failed.
C1_Witness ==
  /\ \A i \in FrameIds : bufDescTable[i].valid /\ bufDescTable[i].file = "f1"
  /\ lastOp.res # "ok"

\* ------------------------------------------------------------ C2
\* C2: the sweep never takes a pinned frame: a frame that is valid with
\* pinCnt > 0 when a readPage miss or an allocPage starts has the same valid
\* flag, key, pinCnt and dirty flag after it, and is not the frame the new page
\* is put in.
C2_SweepKeepsPinned ==
  alive =>
    \A c \in Calls : RunsSweep(c) =>
      \A i \in FrameIds : Pinned(i) =>
        /\ c.r.desc[i].valid
        /\ KeyOf(c.r.desc[i]) = KeyOf(bufDescTable[i])
        /\ c.r.desc[i].pinCnt = bufDescTable[i].pinCnt
        /\ c.r.desc[i].dirty = bufDescTable[i].dirty
        /\ c.r.frame # i

\* A sweep has passed over a pinned frame (its refbit is cleared, its two pins
\* are kept) and has put a page in another frame.
C2_Witness ==
  /\ lastOp.op \in {"readPage", "allocPage"} /\ lastOp.res = "ok"
  /\ \E i, j \in FrameIds :
       /\ bufDescTable[i].pinCnt = 2 /\ ~bufDescTable[i].refbit
       /\ i # j /\ bufDescTable[j] = Set(bufDescTable[j].file, bufDescTable[j].pageNo)

\* ------------------------------------------------------------ C3
\* C3, as claimed: a pinCnt decreases only in unPinPage, and then by exactly
\* one, and a valid frame becomes empty only when its pinCnt is 0.
C3_Original ==
  [][\A i \in FrameIds :
       /\ bufDescTable'[i].pinCnt < bufDescTable[i].pinCnt
            => /\ lastOp'.op = "unPinPage"
               /\ bufDescTable'[i].pinCnt = bufDescTable[i].pinCnt - 1
       /\ (bufDescTable[i].valid /\ ~bufDescTable'[i].valid)
            => bufDescTable[i].pinCnt = 0]_vars

\* The step is disposePage of the page frame i holds, and clears the frame.
DisposesFrame(i) ==
  /\ lastOp'.op = "disposePage"
  /\ \E file \in Files, pageNo \in PageIds :
       /\ DisposePage(file, pageNo)
       /\ KeyOf(bufDescTable[i]) = <<file, pageNo>>
  /\ bufDescTable'[i] = Clear

\* C3, amended: a pinCnt decreases by exactly one in unPinPage, or to 0 in
\* disposePage of the page the frame holds, which clears the frame whatever
\* its pinCnt. Eviction, flushFile and the destructor never lower a pinCnt
\* > 0: a valid frame is emptied or given another page only when its pinCnt is
\* 0, or by disposePage of its page.
C3_PinDecreasesOnlyByUnpinOrDispose ==
  [][\A i \in FrameIds :
       /\ bufDescTable'[i].pinCnt < bufDescTable[i].pinCnt
            => \/ /\ lastOp'.op = "unPinPage"
                  /\ bufDescTable'[i].pinCnt = bufDescTable[i].pinCnt - 1
                  /\ bufDescTable'[i].valid
                  /\ KeyOf(bufDescTable'[i]) = KeyOf(bufDescTable[i])
               \/ DisposesFrame(i)
       /\ (bufDescTable[i].valid
             /\ (~bufDescTable'[i].valid
                   \/ KeyOf(bufDescTable'[i]) # KeyOf(bufDescTable[i])))
            => bufDescTable[i].pinCnt = 0 \/ DisposesFrame(i)]_vars

\* An unPinPage(dirty = true) has taken a frame pinned twice down to one pin.
C3_Witness ==
  /\ lastOp = [op |-> "unPinPage", res |-> "ok"]
  /\ \E i \in FrameIds :
       bufDescTable[i].valid /\ bufDescTable[i].pinCnt = 1 /\ bufDescTable[i].dirty

\* ------------------------------------------------------------ C4
\* C4: pinCnt never goes below 0: unPinPage of a cached page whose pinCnt is 0
\* throws PageNotPinnedException and changes nothing: not that frame's
\* descriptor (dirty is not set, whatever the dirty argument), no other frame,
\* not the hash table, not the clock hand.
C4_UnpinOfUnpinnedFails ==
  /\ \A i \in FrameIds : bufDescTable[i].pinCnt >= 0
  /\ \A c \in Calls :
       (/\ c.op = "unPinPage"
        /\ hashHas(hashTable, c.file, c.pageNo)
        /\ bufDescTable[hashLookup(hashTable, c.file, c.pageNo)].pinCnt = 0)
         => /\ c.r.res = "PageNotPinnedException"
            /\ c.r.desc = bufDescTable
            /\ c.r.hash = hashTable
            /\ c.r.hand = clockHand
            /\ c.r.pool = bufPool
            /\ c.r.disk = disk

\* An unPinPage has failed on a cached, unpinned, clean page.
C4_Witness ==
  /\ lastOp = [op |-> "unPinPage", res |-> "PageNotPinnedException"]
  /\ \E i \in FrameIds :
       bufDescTable[i].valid /\ bufDescTable[i].pinCnt = 0 /\ ~bufDescTable[i].dirty

\* ------------------------------------------------------------ C5
\* The call empties frame i or gives it another page.
Resets(c, i) ==
  \/ ~c.r.desc[i].valid
  \/ KeyOf(c.r.desc[i]) # KeyOf(bufDescTable[i])

\* C5: when a readPage or allocPage (eviction) or a flushFile resets a valid
\* dirty frame, or the destructor reaches one, the call has made a writePage
\* of the frame's page with its contents, and the page in the file equals the
\* frame's contents.
C5_DirtyWrittenBack ==
  \A c \in Calls : \A i \in FrameIds :
    LET e == bufDescTable[i] IN
    (/\ e.valid /\ e.dirty
     /\ \/ c.op \in {"readPage", "allocPage", "flushFile"} /\ Resets(c, i)
        \/ c.op = "~BufMgr" /\ \A j \in 0..i : ~Pinned(j))
      => /\ <<e.file, e.pageNo, bufPool[i].data>> \in c.r.wrote
         /\ c.r.disk[e.file][e.pageNo] = bufPool[i].data

\* The tracked page was changed by the caller, evicted by an allocPage that
\* filled the pool, and its new contents are in the file.
C5_Witness ==
  /\ lastOp = [op |-> "allocPage", res |-> "ok"]
  /\ ~hashHas(hashTable, TrackedKey[1], TrackedKey[2])
  /\ \A i \in FrameIds : bufDescTable[i].valid
  /\ disk[TrackedKey[1]][TrackedKey[2]] = 1

\* ------------------------------------------------------------ C6
\* C6: round trip: once the contents c of the tracked page are released by
\* unPinPage(dirty = true), and the caller neither rewrites the page nor
\* disposes of it, a successful readPage of the page returns c, whatever was
\* evicted, flushed, allocated or read in between.
C6_RoundTrip ==
  [][(/\ ReadPage(TrackedKey[1], TrackedKey[2])
      /\ released # NoPage
      /\ lastOp'.res = "ok")
       => bufPool'[hashLookup(hashTable', TrackedKey[1], TrackedKey[2])].data
            = released]_vars

\* The tracked page, released with contents 1, has been written back and
\* loaded again: its frame is as Set leaves it and holds 1.
C6_Witness ==
  /\ lastOp = [op |-> "readPage", res |-> "ok"]
  /\ released = 1
  /\ \E i \in FrameIds :
       /\ bufDescTable[i] = Set(TrackedKey[1], TrackedKey[2])
       /\ bufPool[i] = [pageNo |-> TrackedKey[2], data |-> 1]
  /\ \A i \in FrameIds : bufDescTable[i].valid

\* ------------------------------------------------------------ C7
\* C7: a readPage miss or an allocPage throws BufferExceededException exactly
\* when every frame is valid and pinned; otherwise the sweep returns a frame
\* that was not pinned.
C7_ExhaustedIffAllPinned ==
  \A c \in Calls : RunsSweep(c) =>
    /\ (c.r.res = "BufferExceededException") <=> AllPinned
    /\ ~AllPinned => c.r.frame \in FrameIds /\ ~Pinned(c.r.frame)

\* An allocPage has failed on a pool whose frames are all pinned.
C7_Witness ==
  /\ lastOp = [op |-> "allocPage", res |-> "BufferExceededException"]
  /\ AllPinned

\* ------------------------------------------------------------ C8
\* C8, as claimed: flushFile of a file with a pinned page throws
\* PagePinnedException and leaves every frame, the hash table and the files as
\* they were.
C8_Original ==
  [][\A file \in Files :
       (/\ FlushFile(file)
        /\ \E i \in FrameIds :
             bufDescTable[i].file = file /\ bufDescTable[i].pinCnt > 0)
         => /\ lastOp'.res = "PagePinnedException"
            /\ UNCHANGED <<bufDescTable, bufPool, hashTable, disk>>]_vars

\* ------------------------------------------------------------ C9
\* C9, as claimed: a readPage miss that throws BufferExceededException leaves
\* every descriptor, refbit included, and the hash table as they were.
C9_Original ==
  [][\A file \in Files, pageNo \in PageIds :
       (/\ ReadPage(file, pageNo)
        /\ ~hashHas(hashTable, file, pageNo)
        /\ lastOp'.res = "BufferExceededException")
         => UNCHANGED <<bufDescTable, hashTable>>]_vars

\* C9, amended: a readPage miss that throws BufferExceededException leaves
\* every descriptor's valid, dirty, pinCnt, file and pageNo, the hash table,
\* the frames' contents and the files as they were; the refbit of every frame
\* is false after it, the failing sweep having cleared those that were set.
C9_ExhaustedReadKeepsAllButRefbit ==
  \A c \in Calls :
    (c.op = "readPage" /\ RunsSweep(c) /\ c.r.res = "BufferExceededException")
      => /\ c.r.hash = hashTable
         /\ \A i \in FrameIds :
              c.r.desc[i] = [bufDescTable[i] EXCEPT !.refbit = FALSE]
         /\ c.r.pool = bufPool
         /\ c.r.disk = disk

\* A readPage has failed on a pool whose frames are all pinned; no refbit is
\* left set.
C9_Witness ==
  /\ lastOp = [op |-> "readPage", res |-> "BufferExceededException"]
  /\ \A i \in FrameIds : Pinned(i) /\ ~bufDescTable[i].refbit

\* ------------------------------------------------------------ C10
\* C10, as claimed: an allocPage that throws BufferExceededException leaves
\* the file with the pages it had, and the pool without a mapping for a new
\* page.
C10_Original ==
  [][\A file \in Files :
       (AllocPage(file) /\ lastOp'.res = "BufferExceededException")
         => /\ \A pageNo \in PageIds :
                 (disk'[file][pageNo] = NoPage) <=> (disk[file][pageNo] = NoPage)
            /\ hashTable' = hashTable]_vars

\* ------------------------------------------------------------ C11
\* C11, as claimed: a readPage miss that fails because the page is not in the
\* file (InvalidPageException) leaves the pool as it was: no descriptor and no
\* hash table entry differs, no page has been evicted or written back.
C11_Original ==
  [][\A file \in Files, pageNo \in PageIds :
       (/\ ReadPage(file, pageNo)
        /\ ~hashHas(hashTable, file, pageNo)
        /\ lastOp'.res = "InvalidPageException")
         => UNCHANGED <<bufDescTable, hashTable, disk>>]_vars

\* ------------------------------------------------------------ C12
\* C12: disposePage and unPinPage (dirty or not) of a (file, pageNo) that is
\* not in the pool throw nothing and leave every descriptor, the hash table,
\* the frames' contents and the clock hand as they were.
C12_MissIsNoOp ==
  \A c \in Calls :
    (c.op \in {"disposePage", "unPinPage"} /\ ~hashHas(hashTable, c.file, c.pageNo))
      => /\ c.r.res = "ok"
         /\ c.r.desc = bufDescTable
         /\ c.r.hash = hashTable
         /\ c.r.pool = bufPool
         /\ c.r.hand = clockHand

\* An unPinPage has returned normally on a pool that holds no page, while the
\* files hold one.
C12_Witness ==
  /\ lastOp = [op |-> "unPinPage", res |-> "ok"]
  /\ hashTable = {}
  /\ \E file \in Files, pageNo \in PageIds : FileHasPage(disk, file, pageNo)

\* ------------------------------------------------------------ C13
\* C13: from construction on, a frame that is not valid has pinCnt 0, dirty
\* and refbit false, no file and no page number; so no flushFile of a file
\* meets an invalid frame of that file (BadBufferException is never thrown).
C13_InvalidFramesAreEmpty ==
  /\ \A i \in FrameIds : ~bufDescTable[i].valid => bufDescTable[i] = Clear
  /\ \A c \in Calls : c.r.res # "BadBufferException"

\* A flushFile has emptied the whole pool, and had a changed page to write
\* back: frames that were valid, dirty and referenced are now empty.
C13_Witness ==
  /\ lastOp = [op |-> "flushFile", res |-> "ok"]
  /\ \A i \in FrameIds : ~bufDescTable[i].valid
  /\ disk[TrackedKey[1]][TrackedKey[2]] = 1

\* ------------------------------------------------------------ C14
\* C14, as claimed: the dirty flag of a frame goes from true to false only in
\* a call that writes the frame's contents back (an evicting readPage or
\* allocPage, or flushFile), the file then holding those contents; never in
\* unPinPage or a readPage hit.
C14_Original ==
  [][\A i \in FrameIds :
       (bufDescTable[i].dirty /\ ~bufDescTable'[i].dirty)
         => /\ lastOp'.op \in {"readPage", "allocPage", "flushFile"}
            /\ disk'[bufDescTable[i].file][bufDescTable[i].pageNo]
                 = bufPool[i].data]_vars

\* C14, amended: the dirty flag of a frame goes from true to false only in a
\* call that writes the frame's contents back (an evicting readPage or
\* allocPage, or flushFile), or in disposePage of the page the frame holds,
\* which clears the frame without a write-back; never in unPinPage or a
\* readPage hit.
C14_DirtyClearedByWriteBackOrDispose ==
  \A c \in Calls : \A i \in FrameIds :
    LET e == bufDescTable[i] IN
    (e.dirty /\ ~c.r.desc[i].dirty)
      => \/ /\ c.op \in {"readPage", "allocPage", "flushFile"}
            /\ RunsSweep(c) \/ c.op = "flushFile"
            /\ <<e.file, e.pageNo, bufPool[i].data>> \in c.r.wrote
            /\ c.r.disk[e.file][e.pageNo] = bufPool[i].data
         \/ /\ c.op = "disposePage"
            /\ KeyOf(e) = <<c.file, c.pageNo>>
            /\ c.r.desc[i] = Clear
            /\ c.r.wrote = {}

\* A dirty frame has been read twice since: it is still dirty.
C14_Witness ==
  /\ lastOp = [op |-> "readPage", res |-> "ok"]
  /\ \E i \in FrameIds :
       /\ bufDescTable[i].dirty /\ bufDescTable[i].pinCnt = 2
       /\ bufDescTable[i].refbit

\* ------------------------------------------------------------ C15
\* C15, as claimed: one sweep advances the hand at most 2 * numBufs times,
\* whether it returns a frame or throws BufferExceededException.
C15_Original ==
  \A c \in Calls : RunsSweep(c) => c.r.steps <= 2 * NumBufs

\* ------------------------------------------------------------ C16
\* Every frame is valid, unpinned and referenced.
AllSecondChance ==
  \A i \in FrameIds :
    /\ bufDescTable[i].valid /\ bufDescTable[i].refbit
    /\ bufDescTable[i].pinCnt = 0

\* C16: when every frame is valid, unpinned and has its refbit set, readPage
\* of a page that is in its file and not in the pool takes the frame at
\* (clockHand + 1) mod numBufs as of the start of the call: the page is set
\* there with pinCnt 1 and refbit true, the hand ends on that frame, and every
\* other page stays in the pool with refbit false and nothing else changed.
C16_SecondChanceVictim ==
  \A c \in Calls :
    (/\ c.op = "readPage"
     /\ ~hashHas(hashTable, c.file, c.pageNo)
     /\ FileHasPage(disk, c.file, c.pageNo)
     /\ AllSecondChance)
      => LET v == (clockHand + 1) % NumBufs IN
         /\ c.r.res = "ok"
         /\ c.r.frame = v
         /\ c.r.hand = v
         /\ c.r.desc[v] = Set(c.file, c.pageNo)
         /\ c.r.pool[v] = FileReadPage(disk, c.file, c.pageNo)
         /\ hashLookup(c.r.hash, c.file, c.pageNo) = v
         /\ \A i \in FrameIds \ {v} :
              /\ c.r.desc[i] = [bufDescTable[i] EXCEPT !.refbit = FALSE]
              /\ c.r.pool[i] = bufPool[i]
              /\ <<bufDescTable[i].file, bufDescTable[i].pageNo, i>> \in c.r.hash

\* The last unPinPage has left every frame valid, unpinned and referenced, and
\* a page that is in its file and not in the pool is read into the frame next
\* to the hand.
C16_Witness ==
  /\ lastOp = [op |-> "unPinPage", res |-> "ok"]
  /\ AllSecondChance
  /\ \E c \in Calls :
       /\ c.op = "readPage" /\ ~hashHas(hashTable, c.file, c.pageNo)
       /\ FileHasPage(disk, c.file, c.pageNo)
       /\ c.r.res = "ok" /\ c.r.hand = (clockHand + 1) % NumBufs
       /\ c.r.steps = NumBufs + 1

\* ------------------------------------------------------------ C17
\* C17: clockHand is always in [0, numBufs); a readPage miss and an allocPage
\* advance it at least once, one position (mod numBufs) per step, whether the
\* sweep returns a frame or throws BufferExceededException; a readPage hit,
\* unPinPage, disposePage and flushFile leave it where it was.
C17_HandInRangeMovedBySweepOnly ==
  /\ clockHand \in FrameIds
  /\ \A c \in Calls :
       /\ RunsSweep(c)
            => /\ c.r.steps >= 1
               /\ c.r.hand = (clockHand + c.r.steps) % NumBufs
       /\ (~RunsSweep(c) /\ c.op # "~BufMgr") => c.r.hand = clockHand

\* A sweep has failed on an all-pinned pool and left the hand on frame 0, off
\* the frame the constructor had put it on.
C17_Witness ==
  /\ lastOp.res = "BufferExceededException"
  /\ clockHand = 0

\* ------------------------------------------------------------ C18
\* The frames holding a page of the file.
FramesOf(file) ==
  {i \in FrameIds : bufDescTable[i].valid /\ bufDescTable[i].file = file}

\* C18: a flushFile(file) that returns normally leaves no valid frame and no
\* hash table entry of the file, has written back exactly the frames of the
\* file that were dirty, and leaves the frames of other files (descriptor and
\* contents), their hash table entries and the clock hand as they were.
C18_FlushFileEffect ==
  \A c \in Calls :
    (c.op = "flushFile" /\ c.r.res = "ok")
      => /\ \A i \in FrameIds : ~(c.r.desc[i].valid /\ c.r.desc[i].file = c.file)
         /\ \A i \in FramesOf(c.file) : c.r.desc[i] = Clear
         /\ c.r.hash = {e \in hashTable : e[1] # c.file}
         /\ c.r.wrote =
              {<<c.file, bufPool[i].pageNo, bufPool[i].data>> :
                 i \in {j \in FramesOf(c.file) : bufDescTable[j].dirty}}
         /\ \A w \in c.r.wrote : c.r.disk[w[1]][w[2]] = w[3]
         /\ \A f \in Files, p \in PageIds :
              (\A w \in c.r.wrote : <<w[1], w[2]>> # <<f, p>>)
                => c.r.disk[f][p] = disk[f][p]
         /\ \A i \in FrameIds \ FramesOf(c.file) :
              c.r.desc[i] = bufDescTable[i] /\ c.r.pool[i] = bufPool[i]
         /\ c.r.hand = clockHand

\* A flushFile has returned normally, the changed page of the file is on disk,
\* and a dirty, pinned page of another file is still in the pool.
C18_Witness ==
  /\ lastOp = [op |-> "flushFile", res |-> "ok"]
  /\ disk[TrackedKey[1]][TrackedKey[2]] = 1
  /\ \E i \in FrameIds :
       /\ bufDescTable[i].valid /\ bufDescTable[i].dirty
       /\ bufDescTable[i].pinCnt > 0
  /\ \E i \in FrameIds : ~bufDescTable[i].valid

\* ------------------------------------------------------------ C19
\* C19: between calls, the hash table maps (file, pageNo) to frame i exactly
\* when frame i is valid and holds (file, pageNo); also after calls that threw.
C19_HashAgreesWithDescriptors ==
  hashTable =
    {<<bufDescTable[i].file, bufDescTable[i].pageNo, i>> :
       i \in {j \in FrameIds : bufDescTable[j].valid}}

\* A read has failed in the file after its sweep: one frame is empty, another
\* still holds its page.
C19_Witness ==
  /\ lastOp = [op |-> "readPage", res |-> "InvalidPageException"]
  /\ \E i \in FrameIds : bufDescTable[i].valid
  /\ \E i \in FrameIds : ~bufDescTable[i].valid

\* ------------------------------------------------------------ C20
\* The hash table entries the call removes.
Evicted(c) == {e \in hashTable : e \notin c.r.hash}

\* C20, as claimed: a readPage miss or an allocPage removes a page from the
\* pool only when no frame is empty at the time of the call.
C20_Original ==
  [][(/\ lastOp'.op \in {"readPage", "allocPage"}
      /\ \E e \in hashTable : e \notin hashTable')
       => \A j \in FrameIds : bufDescTable[j].valid]_vars

\* C20, amended: a readPage miss or an allocPage removes a page from the pool
\* only when the hand meets no empty frame on its way to that page: the frame
\* evicted is the one the hand stops on, it is unpinned, and every frame the
\* hand passed before it was valid. An empty frame further on does not
\* prevent the eviction.
C20_EvictsOnlyBeforeAnyEmptyFrame ==
  \A c \in Calls :
    (RunsSweep(c) /\ Evicted(c) # {})
      => /\ \A e \in Evicted(c) :
              /\ e[3] = (clockHand + c.r.steps) % NumBufs
              /\ bufDescTable[e[3]].pinCnt = 0
         /\ \A k \in 1..(c.r.steps - 1) :
              bufDescTable[(clockHand + k) % NumBufs].valid

\* After a disposePage, a read or an allocation is about to evict a page while
\* a frame of the pool is empty.
C20_Witness ==
  /\ lastOp = [op |-> "disposePage", res |-> "ok"]
  /\ \E j \in FrameIds : ~bufDescTable[j].valid
  /\ \E c \in Calls : RunsSweep(c) /\ c.r.res = "ok" /\ Evicted(c) # {}

====
